---- MODULE Spec2Model ----
(***************************************************************************)
(* A model of httpcache: Transport.RoundTrip, the freshness evaluator, the *)
(* Vary matcher, the storability gate, the streaming capture               *)
(* (cachingReadCloser) and the in-memory store (MemoryCache).              *)
(*                                                                         *)
(* A header collection is a function from the canonical names of the       *)
(* headers it holds to their values.  Cache-Control is held as the         *)
(* sequence of its comma-separated parts, Vary and Connection as the       *)
(* sequence of their comma-separated tokens; every other value is a string.*)
(* Times are whole seconds; a Date or Expires value is the text of a time. *)
(***************************************************************************)
EXTENDS Integers, Sequences, FiniteSets, TLC

VARIABLES
    store,      \* MemoryCache.items: key -> stored bytes
    now,        \* the clock (seconds)
    call,       \* per caller: the dispatch in progress and the response it was handed
    dispatched, \* number of dispatches started
    lastSet,    \* the Cache.Set the last step performed: <<>> or <<[by, key, req, val]>>
    obs         \* the dispatch that returned in the last step: <<>> or <<record>>

vars == <<store, now, call, dispatched, lastSet, obs>>

(***************************************************************************)
(* Bounds                                                                  *)
(***************************************************************************)
MaxDispatch == 2
MaxTime == 1
MaxEOF == 2
MaxClock == 2

(***************************************************************************)
(* Program constants                                                       *)
(***************************************************************************)
StatusOK == 200
StatusNotModified == 304
StatusInternalServerError == 500
StatusGatewayTimeout == 504

stale == "stale"
fresh == "fresh"
transparent == "transparent"
XFromCache == "X-Proxy-Cache"
MarkCachedResponses == TRUE

NotModifiedDelHeaders == {"Content-Length", "Content-Type", "Last-Modified", "Status"}

ProxyFromCacheToString(i) == IF i = 1 THEN "hit" ELSE "miss"
ProxyCachedToString(i) == IF i = 1 THEN "cached" ELSE "no-cache"
ProxyWriteCacheToString(i) == IF i = 1 THEN "store" ELSE "no-store"
ProxyStaleClientToString(i) ==
    CASE i = -1 -> "use-none"
      [] i = 0 -> "use-cache-header"
      [] i = 1 -> "use-client-header"

(***************************************************************************)
(* Header collections                                                      *)
(***************************************************************************)
NoHeader == <<>>

\* http.Header.Get for a string-valued header: "" when the header is absent.
Get(h, name) == IF name \in DOMAIN h THEN h[name] ELSE ""

\* http.Header.Set
SetHeader(h, name, v) == (name :> v) @@ h

\* http.Header.Del of every name in names
DelHeaders(h, names) == [n \in DOMAIN h \ names |-> h[n]]

\* http.CanonicalHeaderKey on the names the model uses; a name that is not a
\* valid header token (here: one with a blank in it) is returned unchanged.
CanonicalHeaderKey(s) ==
    CASE s = "accept" -> "Accept"
      [] s = "vary" -> "Vary"
      [] s = "etag" -> "Etag"
      [] s = "cache-control" -> "Cache-Control"
      [] s = "content-type" -> "Content-Type"
      [] s = "keep-alive" -> "Keep-Alive"
      [] OTHER -> s

\* The texts of the times 0, 1, 2, ... (RFC 1123 dates).
TimeNames == <<"T0", "T1", "T2", "T3", "T4", "T5">>

FormatTime(t) == TimeNames[t + 1]

\* time.Parse(time.RFC1123, s)
ParseTime(s) ==
    IF \E i \in DOMAIN TimeNames : TimeNames[i] = s
    THEN [ok |-> TRUE, t |-> (CHOOSE i \in DOMAIN TimeNames : TimeNames[i] = s) - 1]
    ELSE [ok |-> FALSE, t |-> 0]

\* The decimal numerals time.ParseDuration(v + "s") accepts in the model.
Numerals == <<"0", "1", "2", "3", "4", "5">>

\* time.ParseDuration(v + "s"), in seconds
ParseDuration(v) ==
    IF \E i \in DOMAIN Numerals : Numerals[i] = v
    THEN [ok |-> TRUE, d |-> (CHOOSE i \in DOMAIN Numerals : Numerals[i] = v) - 1]
    ELSE [ok |-> FALSE, d |-> 0]

\* Date(respHeaders)
Date(respHeaders) ==
    IF Get(respHeaders, "Date") = ""
    THEN [ok |-> FALSE, t |-> 0]
    ELSE ParseTime(respHeaders["Date"])

\* A Cache-Control part "k" (eq FALSE) or "k=v" (eq TRUE).
Directive(k) == [k |-> k, eq |-> FALSE, v |-> ""]
DirectiveV(k, v) == [k |-> k, eq |-> TRUE, v |-> v]

RECURSIVE parseParts(_, _)
parseParts(parts, cc) ==
    IF parts = <<>> THEN cc
    ELSE LET part == Head(parts)
         IN  IF part.k = "" /\ ~part.eq
             THEN parseParts(Tail(parts), cc)
             ELSE parseParts(Tail(parts), (part.k :> part.v) @@ cc)

\* parseCacheControl: the directive map of a header collection.
parseCacheControl(headers) ==
    parseParts(IF "Cache-Control" \in DOMAIN headers THEN headers["Cache-Control"] ELSE <<>>,
               <<>>)

\* headerAllCommaSepValues
headerAllCommaSepValues(headers, name) ==
    IF CanonicalHeaderKey(name) \in DOMAIN headers
    THEN headers[CanonicalHeaderKey(name)]
    ELSE <<>>

(***************************************************************************)
(* Key derivation and the store                                            *)
(***************************************************************************)
\* CacheKey(req): the URL for GET, "METHOD URL" otherwise, and "-" plus the
\* Range value appended when the request carries the range-caching marker.
CacheKeyOfURL(req) ==
    IF req.optin THEN req.url \o "-" \o Get(req.header, "Range") ELSE req.url

CacheKey(req) ==
    LET key == IF req.method = "GET" THEN req.url ELSE req.method \o " " \o req.url
    IN  IF req.optin THEN key \o "-" \o Get(req.header, "Range") ELSE key

\* MemoryCache.Get
MemoryCacheGet(items, key) ==
    [ok |-> key \in DOMAIN items,
     data |-> IF key \in DOMAIN items THEN <<items[key]>> ELSE <<>>]

\* MemoryCache.Has
MemoryCacheHas(items, key) == key \in DOMAIN items

MemoryCacheSetIfAbsent(items, key, val) ==
    IF key \in DOMAIN items THEN items ELSE (key :> val) @@ items

\* MemoryCache.Set
MemoryCacheSet(items, key, val) == (key :> val) @@ items

MemoryCacheDeleteNothing(items, key) == items

\* MemoryCache.Delete
MemoryCacheDelete(items, key) == [k \in DOMAIN items \ {key} |-> items[k]]

\* httputil.DumpResponse(resp, true): status line, headers and body as stored bytes.
DumpResponse(resp) ==
    [wire |-> "http", status |-> resp.status, header |-> resp.header, body |-> resp.body]

ReadResponseOfAnything(bytes) ==
    [ok |-> TRUE,
     resp |-> <<[status |-> bytes.status, header |-> bytes.header, body |-> bytes.body]>>]

\* http.ReadResponse on stored bytes: fails on bytes that are no HTTP response.
ReadResponse(bytes) ==
    IF bytes.wire = "http"
    THEN [ok |-> TRUE,
          resp |-> <<[status |-> bytes.status, header |-> bytes.header, body |-> bytes.body]>>]
    ELSE [ok |-> FALSE, resp |-> <<>>]

\* CachedResponse(c, req): resp is <<>> (nil) or <<response>>; err is the parse error.
CachedResponse(items, req) ==
    LET got == MemoryCacheGet(items, CacheKey(req))
    IN  IF ~got.ok THEN [resp |-> <<>>, err |-> FALSE]
        ELSE LET r == ReadResponse(got.data[1])
             IN  [resp |-> r.resp, err |-> ~r.ok]

(***************************************************************************)
(* Vary matcher, freshness evaluator, stale-if-error, storability gate     *)
(***************************************************************************)
\* varyMatches(cachedResp, req)
varyMatches(cachedResp, req) ==
    LET tokens == headerAllCommaSepValues(cachedResp.header, "vary")
    IN  \A i \in DOMAIN tokens :
            LET header == CanonicalHeaderKey(tokens[i])
            IN  ~(header # "" /\
                  Get(req.header, header) # Get(cachedResp.header, "X-Varied-" \o header))

maxAgeLifetimeUnparsedAsOne(v) == IF ParseDuration(v).ok THEN ParseDuration(v).d ELSE 1

\* The lifetime a max-age directive gives: zero when its value does not parse.
maxAgeLifetime(v) == IF ParseDuration(v).ok THEN ParseDuration(v).d ELSE 0

\* The request's validators converge with the entry's (getFreshness, within the
\* lifetime): both pairs match, or one matches and the other is empty on a side.
validatorsConvergeAlways(respHeaders, reqHeaders) == TRUE

validatorsConverge(respHeaders, reqHeaders) ==
    LET inm == Get(reqHeaders, "If-None-Match")
        etag == Get(respHeaders, "Etag")
        ims == Get(reqHeaders, "If-Modified-Since")
        lm == Get(respHeaders, "Last-Modified")
        fe == inm = etag /\ inm # ""
        fl == ims = lm /\ ims # ""
    IN  (fe /\ fl) \/ (fe /\ (ims = "" \/ lm = "")) \/ (fl /\ (inm = "" \/ etag = ""))

getFreshnessDateFirst(respHeaders, reqHeaders, clk) ==
    LET respCacheControl == parseCacheControl(respHeaders)
        reqCacheControl == parseCacheControl(reqHeaders)
        lifetime == IF "max-age" \in DOMAIN respCacheControl
                    THEN maxAgeLifetime(respCacheControl["max-age"]) ELSE 0
    IN  IF ~Date(respHeaders).ok THEN stale
        ELSE IF "no-cache" \in DOMAIN reqCacheControl THEN transparent
        ELSE IF "no-cache" \in DOMAIN respCacheControl THEN stale
        ELSE IF "only-if-cached" \in DOMAIN reqCacheControl THEN fresh
        ELSE IF lifetime > clk - Date(respHeaders).t
                /\ validatorsConverge(respHeaders, reqHeaders)
             THEN fresh
        ELSE stale

\* getFreshness(respHeaders, reqHeaders) at clock reading clk
getFreshness(respHeaders, reqHeaders, clk) ==
    LET respCacheControl == parseCacheControl(respHeaders)
        reqCacheControl == parseCacheControl(reqHeaders)
        date == Date(respHeaders)
        expires == ParseTime(Get(respHeaders, "Expires"))
        respLifetime ==
            IF "max-age" \in DOMAIN respCacheControl
            THEN maxAgeLifetime(respCacheControl["max-age"])
            ELSE IF Get(respHeaders, "Expires") # "" /\ expires.ok
                 THEN expires.t - date.t
                 ELSE 0
        lifetime ==
            IF "max-age" \in DOMAIN reqCacheControl
            THEN maxAgeLifetime(reqCacheControl["max-age"])
            ELSE respLifetime
        age0 == clk - date.t
        age1 ==
            IF "min-fresh" \in DOMAIN reqCacheControl
               /\ ParseDuration(reqCacheControl["min-fresh"]).ok
            THEN age0 + ParseDuration(reqCacheControl["min-fresh"]).d
            ELSE age0
        currentAge ==
            IF "max-stale" \in DOMAIN reqCacheControl
               /\ ParseDuration(reqCacheControl["max-stale"]).ok
            THEN age1 - ParseDuration(reqCacheControl["max-stale"]).d
            ELSE age1
    IN  IF "no-cache" \in DOMAIN reqCacheControl THEN transparent
        ELSE IF "no-cache" \in DOMAIN respCacheControl THEN stale
        ELSE IF "only-if-cached" \in DOMAIN reqCacheControl THEN fresh
        ELSE IF ~date.ok THEN stale
        ELSE IF "max-stale" \in DOMAIN reqCacheControl /\ reqCacheControl["max-stale"] = ""
             THEN fresh
        ELSE IF lifetime > currentAge /\ validatorsConverge(respHeaders, reqHeaders)
             THEN fresh
        ELSE stale

\* canStaleOnError(respHeaders, reqHeaders) at clock reading clk
canStaleOnError(respHeaders, reqHeaders, clk) ==
    LET respCacheControl == parseCacheControl(respHeaders)
        reqCacheControl == parseCacheControl(reqHeaders)
        respHas == "stale-if-error" \in DOMAIN respCacheControl
        reqHas == "stale-if-error" \in DOMAIN reqCacheControl
        respVal == IF respHas THEN respCacheControl["stale-if-error"] ELSE ""
        reqVal == IF reqHas THEN reqCacheControl["stale-if-error"] ELSE ""
        lifetime ==
            IF reqHas THEN ParseDuration(reqVal).d
            ELSE IF respHas THEN ParseDuration(respVal).d
            ELSE -1
        date == Date(respHeaders)
    IN  IF respHas /\ respVal = "" THEN TRUE
        ELSE IF respHas /\ ~ParseDuration(respVal).ok THEN FALSE
        ELSE IF reqHas /\ reqVal = "" THEN TRUE
        ELSE IF reqHas /\ ~ParseDuration(reqVal).ok THEN FALSE
        ELSE IF lifetime >= 0 THEN date.ok /\ lifetime > clk - date.t
        ELSE FALSE

\* strings.Trim(s, " ") on the Connection tokens the model uses
TrimSpace(s) ==
    CASE s = " " -> ""
      [] s = " etag" -> "etag"
      [] s = " cache-control" -> "cache-control"
      [] OTHER -> s

HopByHopHeaders ==
    {"Connection", "Keep-Alive", "Proxy-Authenticate", "Proxy-Authorization",
     "Te", "Trailer", "Transfer-Encoding", "Upgrade"}

\* getEndToEndHeaders(respHeaders): the names of the headers that are not hop-by-hop
getEndToEndHeaders(respHeaders) ==
    LET listed == IF "Connection" \in DOMAIN respHeaders THEN respHeaders["Connection"] ELSE <<>>
        extra == {CanonicalHeaderKey(listed[i]) :
                     i \in {j \in DOMAIN listed : TrimSpace(listed[j]) # ""}}
    IN  DOMAIN respHeaders \ (HopByHopHeaders \cup extra)

canStoreIgnoringRequest(reqCacheControl, respCacheControl, resp) ==
    IF "no-store" \in DOMAIN respCacheControl THEN FALSE
    ELSE IF Get(resp.header, "Etag") = "" /\ Get(resp.header, "Last-Modified") = "" THEN FALSE
    ELSE TRUE

\* canStore(reqCacheControl, respCacheControl, resp)
canStore(reqCacheControl, respCacheControl, resp) ==
    IF "no-store" \in DOMAIN respCacheControl THEN FALSE
    ELSE IF "no-store" \in DOMAIN reqCacheControl THEN FALSE
    ELSE IF Get(resp.header, "Etag") = "" /\ Get(resp.header, "Last-Modified") = "" THEN FALSE
    ELSE TRUE

\* newGatewayTimeoutResponse(req): "HTTP/1.1 504 Gateway Timeout" with no header, no body
newGatewayTimeoutResponse ==
    [status |-> StatusGatewayTimeout, header |-> NoHeader, body |-> <<>>]

(***************************************************************************)
(* Transport.RoundTrip, in the pieces its two suspension points separate   *)
(***************************************************************************)
\* Transport.CanCache, the predicate the transport is given: here one that refuses
\* every request that carries credentials, whatever the response (resp is <<>> for
\* nil, as in the call before the lookup, or <<response>>).
CanCache(req, resp) == Get(req.header, "Authorization") = ""

cacheableRequestIgnoringRange(req) ==
    req.method \in {"GET", "HEAD"} /\ CanCache(req, <<>>)

\* The request is cacheable (RoundTrip, before the lookup).
cacheableRequest(req) ==
    /\ req.method \in {"GET", "HEAD"} /\ (Get(req.header, "Range") = "" \/ req.optin)
    /\ CanCache(req, <<>>)

\* The request demands only-if-cached (RoundTrip, when no entry is in use).
onlyIfCachedNever(req) == FALSE

onlyIfCached(req) == "only-if-cached" \in DOMAIN parseCacheControl(req.header)

\* cloneRequest(r): a copy of the request with its own header collection
cloneRequest(r) == [method |-> r.method, url |-> r.url, optin |-> r.optin, header |-> r.header]

\* The validators RoundTrip sets on the request it forwards for a stale entry.
addValidators(req, cachedResp) ==
    LET etag == Get(cachedResp.header, "Etag")
        lastModified == Get(cachedResp.header, "Last-Modified")
        h1 == IF etag # "" THEN SetHeader(req.header, "If-None-Match", etag) ELSE req.header
        h2 == IF lastModified # "" THEN SetHeader(h1, "If-Modified-Since", lastModified) ELSE h1
    IN  IF etag # "" \/ lastModified # ""
        THEN [cloneRequest(req) EXCEPT !.header = h2]
        ELSE req

\* staleclient after the validators were set: 0 when the cache set one, else 1.
staleClientAfter(cachedResp) ==
    IF Get(cachedResp.header, "Etag") # "" \/ Get(cachedResp.header, "Last-Modified") # ""
    THEN 0 ELSE 1

\* The rewrite of a response into an empty 304 (fresh hit, and a 304 for the caller's
\* own validators).
asNotModifiedKeepingBody(resp) ==
    [status |-> StatusNotModified,
     header |-> DelHeaders(resp.header, NotModifiedDelHeaders),
     body |-> resp.body]

asNotModified(resp) ==
    [status |-> StatusNotModified,
     header |-> DelHeaders(resp.header, NotModifiedDelHeaders),
     body |-> <<>>]

\* The merge of a 304's end-to-end headers into the cached response.
mergeNotModified(cachedResp, resp, staleclient) ==
    LET names == {n \in getEndToEndHeaders(resp.header) :
                     ~(staleclient = 0 /\ n = "Content-Length")}
        merged == [n \in DOMAIN cachedResp.header \cup names |->
                      IF n \in names THEN resp.header[n] ELSE cachedResp.header[n]]
    IN  [status |-> IF staleclient = 1 THEN StatusNotModified ELSE cachedResp.status,
         header |-> merged,
         body |-> cachedResp.body]

\* The upstream answer is a 304 to reconcile with the cached response.
isNotModified(out, req) ==
    ~out.err /\ req.method \in {"GET", "HEAD"} /\ out.resp.status = StatusNotModified

useStaleOnErrorOnlyOnFailure(out, req, cachedResp, clk) ==
    out.err /\ req.method \in {"GET", "HEAD"}
    /\ canStaleOnError(cachedResp.header, req.header, clk)

\* The upstream failure or 5xx is answered from the cache (stale-if-error).
useStaleOnError(out, req, cachedResp, clk) ==
    (out.err \/ out.resp.status >= StatusInternalServerError)
    /\ req.method \in {"GET", "HEAD"}
    /\ canStaleOnError(cachedResp.header, req.header, clk)

deleteAfterReplyOnErrorOnly(out) == out.err

deleteAfterReplyOnStatusOnly(out) == ~out.err /\ out.resp.status # StatusOK

\* The entry is deleted after the upstream call of a dispatch that had read one.
deleteAfterReply(out) == out.err \/ out.resp.status # StatusOK

RECURSIVE setVaried(_, _, _)
\* The X-Varied-<H> headers written for the Vary tokens of a storable response.
setVaried(header, tokens, req) ==
    IF tokens = <<>> THEN header
    ELSE LET varyKey == CanonicalHeaderKey(Head(tokens))
             reqValue == Get(req.header, varyKey)
         IN  setVaried(IF reqValue # "" THEN SetHeader(header, "X-Varied-" \o varyKey, reqValue)
                       ELSE header,
                       Tail(tokens), req)

\* The X-Proxy-Cache value the deferred function of RoundTrip sets.
cacheStatusAlwaysHit(xfromcache, xproxycached, freshness, xproxywrite, staleclient) ==
    "hit, " \o ProxyCachedToString(xproxycached) \o ", "
    \o freshness \o ", " \o ProxyWriteCacheToString(xproxywrite) \o ", "
    \o ProxyStaleClientToString(staleclient)

cacheStatus(xfromcache, xproxycached, freshness, xproxywrite, staleclient) ==
    ProxyFromCacheToString(xfromcache) \o ", " \o ProxyCachedToString(xproxycached) \o ", "
    \o freshness \o ", " \o ProxyWriteCacheToString(xproxywrite) \o ", "
    \o ProxyStaleClientToString(staleclient)

markResponse(resp, xfromcache, xproxycached, freshness, xproxywrite, staleclient) ==
    IF MarkCachedResponses
    THEN [resp EXCEPT !.header =
              SetHeader(@, XFromCache,
                        cacheStatus(xfromcache, xproxycached, freshness, xproxywrite, staleclient))]
    ELSE resp

delayUntilEOFNever(req) == FALSE

\* A storable response that is not the cached one is written: at once, or for GET
\* when its body reaches end-of-stream.
delayUntilEOF(req) == req.method = "GET"

\* The last part of RoundTrip, from the rewrite of a caller's 304 to the return:
\* the response handed to the caller, the store after it, and whether the body is
\* wrapped in a cachingReadCloser.
RoundTripStore(c, req, cacheKey, cacheable, resp, fromCache, freshness, staleclient, xproxycached, items) ==
    LET r1 == IF staleclient = 1 /\ resp.status = StatusNotModified
              THEN asNotModified(resp) ELSE resp
        storable == cacheable /\ canStore(parseCacheControl(req.header),
                                          parseCacheControl(r1.header), r1)
        r2 == IF storable
              THEN [r1 EXCEPT !.header =
                       setVaried(@, headerAllCommaSepValues(r1.header, "vary"), req)]
              ELSE r1
        early == storable /\ staleclient = 1 /\ r2.status = StatusNotModified
        write == storable /\ ~early /\ ~fromCache
        setNow == write /\ ~delayUntilEOF(req)
    IN  [resp |-> markResponse(r2, IF fromCache THEN 1 ELSE 0,
                               IF storable THEN xproxycached ELSE 0, freshness,
                               IF write THEN 1 ELSE 0, staleclient),
         items |-> IF ~storable THEN MemoryCacheDelete(items, cacheKey)
                   ELSE IF setNow THEN MemoryCacheSet(items, cacheKey, DumpResponse(r2))
                   ELSE items,
         set |-> IF setNow
                 THEN <<[by |-> c, key |-> cacheKey, req |-> req, val |-> DumpResponse(r2)]>>
                 ELSE <<>>,
         wrapped |-> write /\ delayUntilEOF(req)]

(***************************************************************************)
(* The callers, the requests they dispatch and what upstream answers       *)
(***************************************************************************)
Callers == {"c1", "c2"}

URL == "/a"

\* The header name with value v, or no header when v is the empty value.
Opt(name, v, empty) == IF v = empty THEN NoHeader ELSE (name :> v)

ReqCacheControls ==
    {<<>>, <<Directive("no-cache")>>, <<Directive("only-if-cached")>>,
     <<Directive("no-store")>>, <<Directive("stale-if-error")>>}

\* The requests the callers dispatch: GET with each Cache-Control, with and without
\* a validator; GET with a value for the varied header; HEAD; and the requests that
\* are not cacheable: a POST, a GET of a range, a GET the predicate refuses.
Requests ==
    {[method |-> "GET", url |-> URL, optin |-> FALSE,
      header |-> Opt("Cache-Control", cc, <<>>) @@ Opt("If-None-Match", inm, "")] :
        cc \in ReqCacheControls, inm \in {"", "x"}}
    \cup
    {[method |-> "GET", url |-> URL, optin |-> FALSE,
      header |-> Opt("Cache-Control", cc, <<>>) @@ ("Accept" :> "h")] :
        cc \in {<<>>, <<Directive("only-if-cached")>>, <<Directive("stale-if-error")>>}}
    \cup
    {[method |-> "GET", url |-> URL, optin |-> FALSE,
      header |-> ("If-None-Match" :> "x") @@ ("Accept" :> "h")]}
    \cup
    {[method |-> "HEAD", url |-> URL, optin |-> FALSE,
      header |-> Opt("Cache-Control", cc, <<>>)] :
        cc \in {<<>>, <<Directive("no-store")>>, <<Directive("stale-if-error")>>}}
    \cup
    {[method |-> "POST", url |-> URL, optin |-> FALSE, header |-> NoHeader],
     [method |-> "GET", url |-> URL, optin |-> FALSE, header |-> ("Range" :> "bytes=0-1")],
     [method |-> "GET", url |-> URL, optin |-> FALSE, header |-> ("Authorization" :> "u")]}

RespCacheControls ==
    {<<>>, <<DirectiveV("max-age", "1")>>, <<Directive("no-store")>>,
     <<DirectiveV("stale-if-error", "1")>>}

\* The body the origin serves for a representation.
OriginBody(status, etag) ==
    CASE status = StatusNotModified -> <<>>
      [] status # StatusOK -> <<"e">>
      [] etag = "y" -> <<"c">>
      [] OTHER -> <<"a", "b">>

NoResp == [status |-> 0, header |-> NoHeader, body |-> <<>>]

\* A response of the origin at time clk.
OriginResponse(req, clk, st, cc, etag, lm, vary) ==
    [status |-> st,
     header |-> Opt("Cache-Control", cc, <<>>) @@ ("Date" :> FormatTime(clk))
                @@ Opt("Etag", etag, "") @@ Opt("Last-Modified", lm, "")
                @@ Opt("Vary", vary, <<>>)
                @@ Opt("Content-Type", IF st = StatusNotModified THEN "" ELSE "text", ""),
     body |-> IF req.method = "HEAD" THEN <<>> ELSE OriginBody(st, etag)]

\* What the underlying transport can return for a request at time clk: an error;
\* a 200 with each Cache-Control, with or without an ETag; a 200 with another ETag
\* and a Last-Modified; a 200 with a Vary; a 304 that carries no validator or the
\* one it was asked about; a 404 and a 500, with or without an ETag.
UpstreamOutcomes(req, clk) ==
    LET Ok(r) == [err |-> FALSE, resp |-> r]
    IN  {[err |-> TRUE, resp |-> NoResp]}
        \cup {Ok(OriginResponse(req, clk, StatusOK, cc, etag, "", <<>>)) :
                 cc \in RespCacheControls, etag \in {"", "x"}}
        \cup {Ok(OriginResponse(req, clk, StatusOK, cc, "y", "m", <<>>)) :
                 cc \in {<<>>, <<DirectiveV("max-age", "1")>>}}
        \cup {Ok(OriginResponse(req, clk, StatusOK, cc, "x", "", <<"accept">>)) :
                 cc \in {<<DirectiveV("max-age", "1")>>, <<DirectiveV("stale-if-error", "1")>>}}
        \cup {Ok(OriginResponse(req, clk, StatusNotModified, cc, etag, "", <<>>)) :
                 cc \in {<<>>, <<DirectiveV("max-age", "1")>>},
                 etag \in {"", Get(req.header, "If-None-Match")}}
        \cup {Ok(OriginResponse(req, clk, st, <<>>, etag, "", <<>>)) :
                 st \in {404, StatusInternalServerError}, etag \in {"", "x"}}

(***************************************************************************)
(* State                                                                   *)
(***************************************************************************)
\* A caller is idle, waits for the underlying transport ("upstream"), or holds a
\* response whose body is wrapped in a cachingReadCloser ("body").
IdleCall ==
    [pc |-> "idle", req |-> <<>>, sent |-> <<>>, key |-> "", cacheable |-> FALSE,
     cached |-> <<>>, inBranch |-> FALSE, freshness |-> transparent, staleclient |-> 1,
     resp |-> <<>>, pos |-> 0, buf |-> <<>>, closed |-> FALSE, onEOF |-> 0,
     had |-> FALSE]

Init ==
    /\ store = <<>>
    /\ now = 0
    /\ call = [c \in Callers |-> IdleCall]
    /\ dispatched = 0
    /\ lastSet = <<>>
    /\ obs = <<>>

\* The caller's record when RoundTrip returns: it keeps a wrapped body to read.
Returned(st, resp, wrapped) ==
    IF wrapped
    THEN [IdleCall EXCEPT !.pc = "body", !.sent = st.sent, !.key = st.key, !.resp = resp,
                          !.inBranch = st.inBranch, !.freshness = st.freshness]
    ELSE IdleCall

\* What a dispatch that returns leaves to observe: its request, the request it
\* forwarded, the entry it read, whether and what upstream answered, the response
\* or error returned, and the store before the returning step.
Observe(c, st, called, out, resp, err, fromCache, wrapped) ==
    <<[caller |-> c, req |-> st.req[1], sent |-> st.sent[1], key |-> st.key,
       cacheable |-> st.cacheable, cached |-> st.cached, inBranch |-> st.inBranch,
       freshness |-> st.freshness, staleclient |-> st.staleclient,
       called |-> called, out |-> out, resp |-> resp, err |-> err,
       fromCache |-> fromCache, wrapped |-> wrapped, before |-> store, at |-> now,
       had |-> st.had]>>

(***************************************************************************)
(* Actions                                                                 *)
(***************************************************************************)
\* RoundTrip(req) up to the call of the underlying transport, or to its return
\* when the transport is not called (a fresh entry, the synthetic 504).
Dispatch(c, req) ==
    /\ call[c].pc = "idle"
    /\ dispatched < MaxDispatch
    /\ dispatched' = dispatched + 1
    /\ now' = now
    /\ LET cacheKey == CacheKey(req)
           cacheable == cacheableRequest(req)
           looked == IF cacheable THEN CachedResponse(store, req)
                     ELSE [resp |-> <<>>, err |-> FALSE]
           items1 == IF cacheable THEN store ELSE MemoryCacheDelete(store, cacheKey)
           st == [IdleCall EXCEPT !.req = <<req>>, !.sent = <<req>>, !.key = cacheKey,
                                  !.cacheable = cacheable, !.cached = looked.resp,
                                  !.had = MemoryCacheHas(store, cacheKey)]
       IN  IF cacheable /\ looked.resp # <<>> /\ ~looked.err
           THEN LET cachedResp == looked.resp[1]
                    vm == varyMatches(cachedResp, req)
                    freshness == IF vm THEN getFreshness(cachedResp.header, req.header, now)
                                 ELSE transparent
                    hit == <<markResponse(asNotModified(cachedResp), 1, 1, fresh, 0, -1)>>
                IN  IF freshness = fresh
                    THEN /\ call' = [call EXCEPT ![c] = IdleCall]
                         /\ obs' = Observe(c, [st EXCEPT !.inBranch = TRUE,
                                                         !.freshness = fresh,
                                                         !.staleclient = -1],
                                           FALSE, <<>>, hit, FALSE, TRUE, FALSE)
                         /\ store' = store
                         /\ lastSet' = <<>>
                    ELSE /\ call' = [call EXCEPT ![c] =
                                [st EXCEPT !.pc = "upstream", !.inBranch = TRUE,
                                           !.freshness = freshness,
                                           !.sent = IF freshness = stale
                                                    THEN <<addValidators(req, cachedResp)>>
                                                    ELSE <<req>>,
                                           !.staleclient = IF freshness = stale
                                                           THEN staleClientAfter(cachedResp)
                                                           ELSE 1]]
                         /\ obs' = <<>>
                         /\ store' = store
                         /\ lastSet' = <<>>
           ELSE IF onlyIfCached(req)
                THEN LET fin == RoundTripStore(c, req, cacheKey,
                                               cacheable
                                                 /\ CanCache(req, <<newGatewayTimeoutResponse>>),
                                               newGatewayTimeoutResponse, FALSE,
                                               transparent, 1, 0, items1)
                     IN  /\ call' = [call EXCEPT ![c] = Returned(st, <<fin.resp>>, fin.wrapped)]
                         /\ obs' = Observe(c, st, FALSE, <<>>, <<fin.resp>>, FALSE, FALSE,
                                           fin.wrapped)
                         /\ store' = fin.items
                         /\ lastSet' = fin.set
                ELSE /\ call' = [call EXCEPT ![c] = [st EXCEPT !.pc = "upstream"]]
                     /\ obs' = <<>>
                     /\ store' = items1
                     /\ lastSet' = <<>>

\* The underlying transport returns out; RoundTrip runs to its return.
Reply(c, out) ==
    /\ call[c].pc = "upstream"
    /\ UNCHANGED <<now, dispatched>>
    /\ LET st == call[c]
           req == st.sent[1]
           items1 == IF st.inBranch /\ deleteAfterReply(out)
                     THEN MemoryCacheDelete(store, st.key) ELSE store
           xproxycached == IF st.inBranch /\ ~deleteAfterReply(out) THEN 1 ELSE 0
       IN  IF st.inBranch /\ isNotModified(out, req)
           THEN LET fin == RoundTripStore(c, req, st.key, st.cacheable,
                                          mergeNotModified(st.cached[1], out.resp,
                                                           st.staleclient),
                                          TRUE, st.freshness, st.staleclient, 1, store)
                IN  /\ call' = [call EXCEPT ![c] = Returned(st, <<fin.resp>>, fin.wrapped)]
                    /\ obs' = Observe(c, st, TRUE, <<out>>, <<fin.resp>>, FALSE, TRUE,
                                      fin.wrapped)
                    /\ store' = fin.items
                    /\ lastSet' = fin.set
           ELSE IF st.inBranch /\ useStaleOnError(out, req, st.cached[1], now)
           THEN /\ call' = [call EXCEPT ![c] = IdleCall]
                /\ obs' = Observe(c, st, TRUE, <<out>>,
                                  <<markResponse(st.cached[1], 1, 1, st.freshness, 0,
                                                 st.staleclient)>>,
                                  FALSE, TRUE, FALSE)
                /\ store' = store
                /\ lastSet' = <<>>
           ELSE IF out.err
           THEN /\ call' = [call EXCEPT ![c] = IdleCall]
                /\ obs' = Observe(c, st, TRUE, <<out>>, <<>>, TRUE, FALSE, FALSE)
                /\ store' = items1
                /\ lastSet' = <<>>
           ELSE LET fin == RoundTripStore(c, req, st.key,
                                          st.cacheable
                                            /\ (st.inBranch \/ CanCache(req, <<out.resp>>)),
                                          out.resp, FALSE,
                                          st.freshness, st.staleclient, xproxycached,
                                          items1)
                IN  /\ call' = [call EXCEPT ![c] = Returned(st, <<fin.resp>>, fin.wrapped)]
                    /\ obs' = Observe(c, st, TRUE, <<out>>, <<fin.resp>>, FALSE, FALSE,
                                      fin.wrapped)
                    /\ store' = fin.items
                    /\ lastSet' = fin.set

appendReadLastChunk(buf, body, pos, n) == SubSeq(body, pos + 1, pos + n)

\* r.buf.Write(p[:n]): the n bytes read at pos are appended to the buffer.
appendRead(buf, body, pos, n) == buf \o SubSeq(body, pos + 1, pos + n)

\* cachingReadCloser.Read: n more bytes of the wrapped body, eof when the read
\* returns io.EOF; OnEOF then writes the response with the bytes read so far.
Read(c, n, eof) ==
    /\ call[c].pc = "body"
    /\ ~call[c].closed
    /\ LET st == call[c]
           resp == st.resp[1]
           buf == appendRead(st.buf, resp.body, st.pos, n)
           val == DumpResponse([resp EXCEPT !.body = buf])
       IN  /\ st.pos + n <= Len(resp.body)
           /\ n > 0 \/ eof
           /\ eof => (st.pos + n = Len(resp.body) /\ st.onEOF < MaxEOF)
           /\ call' = [call EXCEPT ![c] =
                  [st EXCEPT !.pos = st.pos + n, !.buf = buf,
                             !.onEOF = IF eof THEN st.onEOF + 1 ELSE st.onEOF]]
           /\ store' = IF eof THEN MemoryCacheSet(store, st.key, val) ELSE store
           /\ lastSet' = IF eof
                         THEN <<[by |-> c, key |-> st.key, req |-> st.sent[1], val |-> val]>>
                         ELSE <<>>
    /\ obs' = <<>>
    /\ UNCHANGED <<now, dispatched>>

\* cachingReadCloser.Close
Close(c) ==
    /\ call[c].pc = "body"
    /\ ~call[c].closed
    /\ call' = [call EXCEPT ![c].closed = TRUE]
    /\ lastSet' = <<>>
    /\ obs' = <<>>
    /\ UNCHANGED <<store, now, dispatched>>

\* The caller lets go of the response it was handed.
Release(c) ==
    /\ call[c].pc = "body"
    /\ call' = [call EXCEPT ![c] = IdleCall]
    /\ lastSet' = <<>>
    /\ obs' = <<>>
    /\ UNCHANGED <<store, now, dispatched>>

\* The clock advances.
Tick ==
    /\ now < MaxTime
    /\ now' = now + 1
    /\ lastSet' = <<>>
    /\ obs' = <<>>
    /\ UNCHANGED <<store, call, dispatched>>

\* The callers dispatch one after the other: a request is dispatched when every
\* other caller is idle (its dispatch returned, its body read or let go), by the
\* first caller.
DispatchInTurn(c, req) ==
    /\ \A d \in Callers \ {c} : call[d].pc = "idle"
    /\ c = "c1"
    /\ Dispatch(c, req)

Next ==
    \/ \E c \in Callers, req \in Requests : DispatchInTurn(c, req)
    \/ \E c \in Callers :
          /\ call[c].pc = "upstream"
          /\ \E out \in UpstreamOutcomes(call[c].sent[1], now) : Reply(c, out)
    \/ \E c \in Callers :
          /\ call[c].pc = "body"
          /\ \E n \in 0..Len(call[c].resp[1].body), eof \in BOOLEAN : Read(c, n, eof)
    \/ \E c \in Callers : Close(c)
    \/ \E c \in Callers : Release(c)
    \/ Tick

Spec == Init /\ [][Next]_vars

(***************************************************************************)
(* Properties                                                              *)
(***************************************************************************)
\* The dispatch that returned in the last step (when obs # <<>>).
Ret == obs[1]

\* The entry read by the returning dispatch is a 200 with a max-age that has not
\* run out, a Date of this very second, an ETag and nothing that varies.
PrimedFresh(o) ==
    /\ o.cached # <<>>
    /\ o.cached[1].status = StatusOK
    /\ "max-age" \in DOMAIN parseCacheControl(o.cached[1].header)
    /\ Get(o.cached[1].header, "Date") = FormatTime(o.at)
    /\ Get(o.cached[1].header, "Etag") # ""
    /\ "Vary" \notin DOMAIN o.cached[1].header

FreshHitStatus == "hit, cached, fresh, no-store, use-none"

\* The answer of a fresh hit: no upstream call, an empty 304, the fresh-hit status.
FreshHitAnswer(o) ==
    /\ ~o.called
    /\ ~o.err
    /\ o.resp[1].status = StatusNotModified
    /\ o.resp[1].body = <<>>
    /\ Get(o.resp[1].header, XFromCache) = FreshHitStatus

\* C1 as stated: right after a GET was answered 200 with max-age, Date = now and
\* an ETag and its body was drained, a GET of the same URL that carries no
\* conditional header (and no other header) is answered without an upstream call,
\* by an empty 304 marked "hit, cached, fresh, no-store, use-none".
C1_FreshHitWithoutValidators ==
    (obs # <<>> /\ Ret.req.method = "GET" /\ Ret.req.header = NoHeader /\ PrimedFresh(Ret))
        => FreshHitAnswer(Ret)

\* C1 amended: the fresh hit is the answer to a GET that carries If-None-Match equal
\* to the entry's ETag (no If-Modified-Since, no Cache-Control); a GET without
\* conditional headers is forwarded upstream with If-None-Match set to the ETag.
C1_FreshHit ==
    (obs # <<>> /\ Ret.req.method = "GET" /\ PrimedFresh(Ret)
     /\ "Cache-Control" \notin DOMAIN Ret.req.header
     /\ Get(Ret.req.header, "If-Modified-Since") = "")
        => /\ Get(Ret.req.header, "If-None-Match") = Get(Ret.cached[1].header, "Etag")
                => FreshHitAnswer(Ret)
           /\ Get(Ret.req.header, "If-None-Match") = ""
                => /\ Ret.called
                   /\ Get(Ret.sent.header, "If-None-Match") = Get(Ret.cached[1].header, "Etag")

C1_Witness ==
    /\ obs # <<>>
    /\ Ret.req.method = "GET"
    /\ PrimedFresh(Ret)
    /\ Ret.req.header = ("If-None-Match" :> Get(Ret.cached[1].header, "Etag"))
    /\ FreshHitAnswer(Ret)

\* The entry read by the returning dispatch was stored under another value of the
\* header its Vary names than the request carries.
VariedAway(o) ==
    /\ o.cacheable
    /\ o.cached # <<>>
    /\ headerAllCommaSepValues(o.cached[1].header, "vary") = <<"accept">>
    /\ Get(o.req.header, "Accept") # Get(o.cached[1].header, "X-Varied-Accept")

\* C2 as stated: a cacheable request whose value of the varied header differs from
\* the one the entry was stored under is never answered by the entry nor by a
\* response built from it, whatever upstream does, and upstream is called.
C2_VaryMismatchNeverReuses ==
    (obs # <<>> /\ VariedAway(Ret)) => (Ret.called /\ ~Ret.fromCache)

\* C3: no Set is performed for a response that has neither ETag nor Last-Modified,
\* nor when the request's or the response's Cache-Control contains no-store.
C3_Storability ==
    lastSet # <<>> =>
        /\ (Get(lastSet[1].val.header, "Etag") # ""
            \/ Get(lastSet[1].val.header, "Last-Modified") # "")
        /\ "no-store" \notin DOMAIN parseCacheControl(lastSet[1].req.header)
        /\ "no-store" \notin DOMAIN parseCacheControl(lastSet[1].val.header)

\* A response with a Last-Modified is written by a request with a Cache-Control of
\* its own.
C3_Witness ==
    /\ lastSet # <<>>
    /\ Get(lastSet[1].val.header, "Last-Modified") # ""
    /\ "Cache-Control" \in DOMAIN lastSet[1].req.header

\* C4 as stated: every entry written comes from an upstream response with status
\* 200; a response with another status is never written.
C4_OnlyStatusOKStored ==
    lastSet # <<>> => lastSet[1].val.status = StatusOK

\* The returning dispatch revalidated a stale entry that has an ETag for a GET.
StaleRevalidation(o) ==
    /\ o.req.method = "GET"
    /\ o.inBranch
    /\ o.freshness = stale
    /\ o.called
    /\ Get(o.cached[1].header, "Etag") # ""

\* C5 as stated: a GET that matches a stale entry with an ETag is forwarded with
\* If-None-Match equal to that ETag (and If-Modified-Since equal to its
\* Last-Modified when present), whatever the caller sent; if upstream answers 304
\* the caller receives the cached body with status 200, the entry's ETag and the
\* 304's Cache-Control in place of the entry's.
C5_Revalidation304 ==
    (obs # <<>> /\ StaleRevalidation(Ret)) =>
        /\ Get(Ret.sent.header, "If-None-Match") = Get(Ret.cached[1].header, "Etag")
        /\ Get(Ret.cached[1].header, "Last-Modified") # ""
              => Get(Ret.sent.header, "If-Modified-Since")
                    = Get(Ret.cached[1].header, "Last-Modified")
        /\ (~Ret.out[1].err /\ Ret.out[1].resp.status = StatusNotModified)
              => /\ ~Ret.err
                 /\ Ret.resp[1].body = Ret.cached[1].body
                 /\ Ret.resp[1].status = StatusOK
                 /\ Get(Ret.resp[1].header, "Etag") = Get(Ret.cached[1].header, "Etag")
                 /\ "Cache-Control" \in DOMAIN Ret.out[1].resp.header
                       => parseCacheControl(Ret.resp[1].header)
                             = parseCacheControl(Ret.out[1].resp.header)

\* The returning dispatch revalidated a stale entry and upstream answered 200 with
\* a new ETag.
Revalidated200(o) ==
    /\ StaleRevalidation(o)
    /\ ~o.out[1].err
    /\ o.out[1].resp.status = StatusOK
    /\ Get(o.out[1].resp.header, "Etag") # ""
    /\ Get(o.out[1].resp.header, "Etag") # Get(o.cached[1].header, "Etag")

\* The caller was handed the new response, its body wrapped for the write at
\* end-of-stream.
NewResponseHandedOut(o) ==
    /\ ~o.err
    /\ ~o.fromCache
    /\ o.resp[1].body = o.out[1].resp.body
    /\ Get(o.resp[1].header, "Etag") = Get(o.out[1].resp.header, "Etag")
    /\ o.wrapped
    /\ call[o.caller].pc = "body"
    /\ call[o.caller].resp = o.resp

\* C6 as stated: when a GET revalidates a stale entry and upstream answers 200 with
\* a new body and a new ETag, the caller receives the new body and its read to
\* end-of-stream leaves exactly the new response under the key (the response is
\* handed out wrapped, so that the read writes it).
C6_Revalidation200Stored ==
    (obs # <<>> /\ Revalidated200(Ret)) => NewResponseHandedOut(Ret)

NoStoreDeclared(req, resp) ==
    \/ "no-store" \in DOMAIN parseCacheControl(req.header)
    \/ "no-store" \in DOMAIN parseCacheControl(resp.header)

C6_Returned ==
    (obs # <<>> /\ Revalidated200(Ret) /\ ~NoStoreDeclared(Ret.req, Ret.out[1].resp))
        => NewResponseHandedOut(Ret)

\* The read of caller c in this step returned end-of-stream.
ReadEOF(c) ==
    /\ call[c].pc = "body"
    /\ call'[c].pc = "body"
    /\ call'[c].onEOF = call[c].onEOF + 1

C6_Drained ==
    \A c \in Callers :
        (ReadEOF(c) /\ call[c].inBranch /\ call[c].freshness = stale)
            => /\ call[c].key \in DOMAIN store'
               /\ store'[call[c].key] = DumpResponse(call[c].resp[1])

\* C6 amended: ... and neither the request nor the response declares no-store;
\* then the caller receives the new body and, once a read of it returns
\* end-of-stream, the store holds exactly the new response under the key.
C6_Revalidation200 == [](C6_Returned) /\ [][C6_Drained]_vars

C6_Witness ==
    \E c \in Callers :
        /\ call[c].pc = "body"
        /\ call[c].inBranch
        /\ call[c].freshness = stale
        /\ call[c].onEOF = 1
        /\ Get(call[c].resp[1].header, "Etag") = "y"
        /\ call[c].key \in DOMAIN store
        /\ store[call[c].key] = DumpResponse(call[c].resp[1])
        /\ store[call[c].key].body = <<"c">>

\* Stale-if-error applies to the entry the returning dispatch read and used, and
\* the upstream call failed or was answered 5xx.
StaleIfErrorCase(o) ==
    /\ o.req.method \in {"GET", "HEAD"}
    /\ o.cached # <<>>
    /\ varyMatches(o.cached[1], o.req)
    /\ canStaleOnError(o.cached[1].header, o.req.header, o.at)
    /\ o.called
    /\ (o.out[1].err \/ o.out[1].resp.status >= StatusInternalServerError)

\* C7: then the dispatch returns the cached entry, status and body as stored, with
\* a nil error; the upstream response is discarded and the store is left as it was.
C7_StaleIfError ==
    (obs # <<>> /\ StaleIfErrorCase(Ret)) =>
        /\ ~Ret.err
        /\ Ret.fromCache
        /\ Ret.resp[1].status = Ret.cached[1].status
        /\ Ret.resp[1].body = Ret.cached[1].body
        /\ DelHeaders(Ret.resp[1].header, {XFromCache})
              = DelHeaders(Ret.cached[1].header, {XFromCache})
        /\ store = Ret.before
        /\ Ret.key \in DOMAIN store

C7_Witness ==
    /\ obs # <<>>
    /\ StaleIfErrorCase(Ret)
    /\ Ret.out[1].resp.status = StatusInternalServerError
    /\ Ret.resp[1].body = <<"a", "b">>

\* C8: when the upstream transport returns an error and stale-if-error does not
\* apply (or no entry was read), the dispatch returns the error and no response,
\* and the entry it had read is deleted from the store.
C8_TransportErrorSurfaces ==
    (obs # <<>> /\ Ret.called /\ Ret.out[1].err
     /\ (Ret.cached = <<>>
         \/ ~canStaleOnError(Ret.cached[1].header, Ret.req.header, Ret.at)))
        => /\ Ret.err
           /\ Ret.resp = <<>>
           /\ Ret.cached # <<>> => Ret.key \notin DOMAIN store

C8_Witness ==
    /\ obs # <<>>
    /\ Ret.called
    /\ Ret.out[1].err
    /\ Ret.cached # <<>>
    /\ Ret.key \in DOMAIN Ret.before
    /\ Ret.err

\* C9: a GET with only-if-cached dispatched when the store holds nothing under its
\* key returns the synthetic 504 (no header from upstream, empty body), calls no
\* upstream, and leaves no entry under the key (nor a write to come).
C9_OnlyIfCachedMiss ==
    (obs # <<>> /\ Ret.req.method = "GET" /\ "only-if-cached" \in DOMAIN parseCacheControl(Ret.req.header)
     /\ Ret.key \notin DOMAIN Ret.before)
        => /\ ~Ret.called
           /\ ~Ret.err
           /\ Ret.resp[1].status = StatusGatewayTimeout
           /\ Ret.resp[1].body = <<>>
           /\ DOMAIN Ret.resp[1].header \subseteq {XFromCache}
           /\ Ret.key \notin DOMAIN store
           /\ ~Ret.wrapped
           /\ lastSet = <<>>

C9_Witness ==
    /\ obs # <<>>
    /\ Ret.req.method = "GET"
    /\ "only-if-cached" \in DOMAIN parseCacheControl(Ret.req.header)
    /\ Ret.key \notin DOMAIN Ret.before
    /\ Ret.resp[1].status = StatusGatewayTimeout

\* The returning dispatch was a HEAD that upstream answered with a 200 that passes
\* the storability gate.
StorableHead(o) ==
    /\ o.req.method = "HEAD"
    /\ o.called
    /\ ~o.out[1].err
    /\ o.out[1].resp.status = StatusOK
    /\ ~NoStoreDeclared(o.req, o.out[1].resp)
    /\ (Get(o.out[1].resp.header, "Etag") # ""
        \/ Get(o.out[1].resp.header, "Last-Modified") # "")

C10_AtReturn ==
    obs # <<>> =>
        /\ Ret.sent.method = "GET" =>
              /\ lastSet = <<>>
              /\ \A k \in DOMAIN store : k \in DOMAIN Ret.before /\ store[k] = Ret.before[k]
        /\ StorableHead(Ret) =>
              /\ ~Ret.wrapped
              /\ lastSet # <<>>
              /\ lastSet[1].by = Ret.caller
              /\ Ret.key \in DOMAIN store
              /\ store[Ret.key] = lastSet[1].val
              /\ store[Ret.key].status = StatusOK
              /\ Get(store[Ret.key].header, "Etag") = Get(Ret.out[1].resp.header, "Etag")

C10_Writes ==
    /\ lastSet' # <<>> =>
          LET w == lastSet'[1]
          IN  /\ w.req.method = "GET" =>
                    /\ ReadEOF(w.by)
                    /\ ~call[w.by].closed
                    /\ call'[w.by].pos = Len(call[w.by].resp[1].body)
              /\ w.req.method # "GET" => (obs' # <<>> /\ obs'[1].caller = w.by)
    /\ \A k \in DOMAIN store' :
          (k \notin DOMAIN store \/ store[k] # store'[k])
              => (lastSet' # <<>> /\ lastSet'[1].key = k /\ lastSet'[1].val = store'[k])

C11_OnEOFAtMostOnce ==
    \A c \in Callers :
        call[c].pc = "body" =>
            /\ call[c].onEOF <= 1
            /\ call[c].buf = SubSeq(call[c].resp[1].body, 1, call[c].pos)

(***************************************************************************)
(* The in-memory store on its own: any sequence of Set, Delete, Get and Has *)
(***************************************************************************)
StoreKeys == {"testKey", "otherKey", ""}

\* The bytes a Set is given (ioutil.ReadAll of the reader), the empty string included.
StoreValues == {<<>>, <<"s">>, <<"s", "b">>}

\* What the last Set or Delete on each key was, none at first.
NeverCalled == [op |-> "none", val |-> <<>>]

\* What a call on the store leaves to observe: the call, its key, its result
\* (found flag and bytes, for Get and Has), and the last Set/Delete on every key.
StoreCall(op, key, ok, data, last) ==
    <<[op |-> op, key |-> key, ok |-> ok, data |-> data, last |-> last]>>

StoreInit ==
    /\ store = <<>>
    /\ now = 0
    /\ call = [c \in Callers |-> IdleCall]
    /\ dispatched = 0
    /\ lastSet = <<>>
    /\ obs = StoreCall("new", "", FALSE, <<>>, [k \in StoreKeys |-> NeverCalled])

\* c.Set(key, resp)
StoreSet(key, val) ==
    /\ store' = MemoryCacheSet(store, key, val)
    /\ obs' = StoreCall("set", key, FALSE, <<>>,
                        [obs[1].last EXCEPT ![key] = [op |-> "set", val |-> val]])
    /\ UNCHANGED <<now, call, dispatched, lastSet>>

\* c.Delete(key)
StoreDelete(key) ==
    /\ store' = MemoryCacheDelete(store, key)
    /\ obs' = StoreCall("delete", key, FALSE, <<>>,
                        [obs[1].last EXCEPT ![key] = [op |-> "delete", val |-> <<>>]])
    /\ UNCHANGED <<now, call, dispatched, lastSet>>

\* c.Get(key)
StoreGet(key) ==
    /\ LET got == MemoryCacheGet(store, key)
       IN  obs' = StoreCall("get", key, got.ok, got.data, obs[1].last)
    /\ UNCHANGED <<store, now, call, dispatched, lastSet>>

\* c.Has(key)
StoreHas(key) ==
    /\ obs' = StoreCall("has", key, MemoryCacheHas(store, key), <<>>, obs[1].last)
    /\ UNCHANGED <<store, now, call, dispatched, lastSet>>

StoreNext ==
    \/ \E key \in StoreKeys, val \in StoreValues : StoreSet(key, val)
    \/ \E key \in StoreKeys : StoreDelete(key)
    \/ \E key \in StoreKeys : StoreGet(key)
    \/ \E key \in StoreKeys : StoreHas(key)

SpecStore == StoreInit /\ [][StoreNext]_vars

\* The answers of Get and Has on every key agree with the last Set/Delete on it,
\* and so does the answer the last call returned.
C12_Answers ==
    LET last == obs[1].last
    IN  /\ \A k \in StoreKeys :
              /\ MemoryCacheHas(store, k) = (last[k].op = "set")
              /\ MemoryCacheGet(store, k).ok = (last[k].op = "set")
              /\ last[k].op = "set" => MemoryCacheGet(store, k).data = <<last[k].val>>
        /\ obs[1].op \in {"get", "has"} => obs[1].ok = (last[obs[1].key].op = "set")
        /\ (obs[1].op = "get" /\ obs[1].ok) => obs[1].data = <<last[obs[1].key].val>>

\* A call on one key leaves every other key as it was.
C12_OtherKeys ==
    \A k \in StoreKeys \ {obs'[1].key} :
        MemoryCacheGet(store', k) = MemoryCacheGet(store, k)

KeyMethods == {"GET", "HEAD", "POST"}

KeyURLs == {"/a", "/b", "/a-bytes=0-1"}

\* Requests that differ in method, URL, range-caching marker, Range and Accept.
KeyRequests ==
    {[method |-> m, url |-> u, optin |-> o,
      header |-> Opt("Range", rg, "") @@ Opt("Accept", ac, "")] :
        m \in KeyMethods, u \in KeyURLs, o \in BOOLEAN,
        rg \in {"", "bytes=0-1"}, ac \in {"", "h"}}

KeyInit ==
    /\ store = <<>>
    /\ now = 0
    /\ call \in [Callers -> {[IdleCall EXCEPT !.req = <<r>>] : r \in KeyRequests}]
    /\ dispatched = 0
    /\ lastSet = <<>>
    /\ obs = <<>>

\* cacheKey := CacheKey(req), for the request caller c holds.
KeyOf(c) ==
    /\ call[c].pc = "idle"
    /\ call' = [call EXCEPT ![c].key = CacheKey(call[c].req[1]), ![c].pc = "keyed"]
    /\ UNCHANGED <<store, now, dispatched, lastSet, obs>>

KeyNext == \E c \in Callers : KeyOf(c)

SpecKey == KeyInit /\ [][KeyNext]_vars

\* Two requests equal in all that the key is derived from.
SameKeyInputs(r, s) ==
    /\ r.method = s.method
    /\ r.url = s.url
    /\ r.optin = s.optin
    /\ r.optin => Get(r.header, "Range") = Get(s.header, "Range")

\* C13 as stated: two requests equal in method, URL, opt-in marker and (under
\* opt-in) Range compute the same key, and two requests that differ in method, in
\* URL, or under opt-in in Range value compute different keys.
C13_KeyPurity ==
    (call["c1"].pc = "keyed" /\ call["c2"].pc = "keyed") =>
        LET r == call["c1"].req[1]
            s == call["c2"].req[1]
        IN  /\ SameKeyInputs(r, s) => call["c1"].key = call["c2"].key
            /\ (\/ r.method # s.method
                \/ r.url # s.url
                \/ (r.optin /\ s.optin
                    /\ Get(r.header, "Range") # Get(s.header, "Range")))
                  => call["c1"].key # call["c2"].key

\* The half of C13 that holds: equal inputs give equal keys.
C13_EqualInputsEqualKeys ==
    (call["c1"].pc = "keyed" /\ call["c2"].pc = "keyed"
     /\ SameKeyInputs(call["c1"].req[1], call["c2"].req[1]))
        => call["c1"].key = call["c2"].key

\* The request is not cacheable: a method other than GET and HEAD, a Range without
\* the range-caching marker, or credentials, which the predicate refuses.
NotCacheable(req) ==
    \/ req.method \notin {"GET", "HEAD"}
    \/ (Get(req.header, "Range") # "" /\ ~req.optin)
    \/ Get(req.header, "Authorization") # ""

\* No entry is under the key of a request that is not cacheable when its dispatch
\* ends, with a response or with the error of the upstream call, and none is to be
\* written.
C14_AtEnd ==
    (obs # <<>> /\ NotCacheable(Ret.req)) =>
        /\ Ret.key \notin DOMAIN store
        /\ Ret.key \notin DOMAIN Ret.before
        /\ ~Ret.wrapped
        /\ lastSet = <<>>

\* The step that forwards a request that is not cacheable leaves no entry under
\* its key.
C14_Forwarded ==
    \A c \in Callers :
        (call[c].pc = "idle" /\ call'[c].pc = "upstream" /\ NotCacheable(call'[c].req[1]))
            => call'[c].key \notin DOMAIN store'

OnlyIfCachedVariedAway(o) ==
    /\ o.cacheable
    /\ "only-if-cached" \in DOMAIN parseCacheControl(o.req.header)
    /\ o.cached # <<>>
    /\ headerAllCommaSepValues(o.cached[1].header, "vary") = <<"accept">>
    /\ Get(o.req.header, "Accept") # Get(o.cached[1].header, "X-Varied-Accept")

\* C15 as stated: a cacheable request with only-if-cached whose stored entry does
\* not satisfy the Vary match takes the path of a miss: the dispatch returns the
\* synthetic 504 and does not call the upstream transport.
C15_OnlyIfCachedVaryMismatch ==
    (obs # <<>> /\ OnlyIfCachedVariedAway(Ret)) =>
        /\ ~Ret.called
        /\ ~Ret.err
        /\ Ret.resp[1].status = StatusGatewayTimeout
        /\ Ret.resp[1].body = <<>>

\* The returning dispatch read an entry and its request's no-cache made the
\* freshness verdict transparent.
TransparentVerdict(o) ==
    /\ o.cacheable
    /\ o.cached # <<>>
    /\ varyMatches(o.cached[1], o.req)
    /\ "no-cache" \in DOMAIN parseCacheControl(o.req.header)
    /\ o.freshness = transparent

\* C16 as stated: when the verdict is transparent (the request's Cache-Control
\* contains no-cache) the request is forwarded upstream and the response returned
\* is never the stored entry nor a merge with it, whatever upstream answers.
C16_TransparentNeverReuses ==
    (obs # <<>> /\ TransparentVerdict(Ret)) => (Ret.called /\ ~Ret.fromCache)

\* The forwarding half of C16, which holds: upstream is called, with the request
\* as the caller sent it.
C16_TransparentForwards ==
    (obs # <<>> /\ TransparentVerdict(Ret)) => (Ret.called /\ Ret.sent = Ret.req)

(***************************************************************************)
(* getFreshness on its own: an entry's headers, a request's headers and a  *)
(* clock reading are drawn, and the verdict is computed                     *)
(***************************************************************************)
\* The headers of a stored response: Date absent, parseable or not; Cache-Control
\* with no-cache or a max-age that parses or not; Expires; the two validators.
FreshRespHeaders ==
    {Opt("Date", d, "") @@ Opt("Cache-Control", cc, <<>>) @@ Opt("Expires", e, "")
        @@ Opt("Etag", etag, "") @@ Opt("Last-Modified", lm, "") :
        d \in {"", "T0", "T1", "yesterday"},
        cc \in {<<>>, <<Directive("no-cache")>>, <<DirectiveV("max-age", "1")>>,
                <<DirectiveV("max-age", "2")>>, <<DirectiveV("max-age", "soon")>>},
        e \in {"", "T2", "never"},
        etag \in {"", "x"},
        lm \in {"", "m"}}

FreshReqCacheControls ==
    {<<>>,
     <<Directive("no-cache")>>,
     <<Directive("only-if-cached")>>,
     <<Directive("no-cache"), Directive("only-if-cached")>>,
     <<DirectiveV("max-age", "0")>>,
     <<DirectiveV("max-age", "2")>>,
     <<DirectiveV("max-age", "soon")>>,
     <<DirectiveV("min-fresh", "1")>>,
     <<DirectiveV("min-fresh", "soon")>>,
     <<Directive("max-stale")>>,
     <<DirectiveV("max-stale", "1")>>,
     <<DirectiveV("max-stale", "soon")>>,
     <<DirectiveV("max-age", "2"), DirectiveV("min-fresh", "1")>>}

FreshReqHeaders ==
    {Opt("Cache-Control", cc, <<>>) @@ Opt("If-None-Match", inm, "")
        @@ Opt("If-Modified-Since", ims, "") :
        cc \in FreshReqCacheControls, inm \in {"", "x", "y"}, ims \in {"", "m"}}

FreshInit ==
    /\ store = <<>>
    /\ now \in 0..MaxClock
    /\ \E h \in FreshRespHeaders, q \in FreshReqHeaders :
          call = [c \in Callers |->
                    [IdleCall EXCEPT
                        !.req = <<[method |-> "GET", url |-> URL, optin |-> FALSE,
                                   header |-> q]>>,
                        !.cached = <<[status |-> StatusOK, header |-> h, body |-> <<>>]>>]]
    /\ dispatched = 0
    /\ lastSet = <<>>
    /\ obs = <<>>

\* freshness = getFreshness(cachedResp.Header, req.Header)
Judge(c) ==
    /\ call[c].pc = "idle"
    /\ call' = [call EXCEPT
                  ![c].pc = "judged",
                  ![c].freshness = getFreshness(call[c].cached[1].header,
                                                call[c].req[1].header, now)]
    /\ UNCHANGED <<store, now, dispatched, lastSet, obs>>

FreshNext == Judge("c1")

SpecFresh == FreshInit /\ [][FreshNext]_vars

\* The inputs and the verdict of the judged caller.
JudgedResp == call["c1"].cached[1].header
JudgedReq == call["c1"].req[1].header
Verdict == call["c1"].freshness

\* C17: request no-cache gives transparent whatever else is present; otherwise
\* response no-cache gives stale; otherwise request only-if-cached gives fresh,
\* whatever the entry's age, Date or validators; otherwise a missing or unparseable
\* Date gives stale.
C17_DecisionOrder ==
    call["c1"].pc = "judged" =>
        LET reqCC == DOMAIN parseCacheControl(JudgedReq)
            respCC == DOMAIN parseCacheControl(JudgedResp)
        IN  /\ "no-cache" \in reqCC => Verdict = transparent
            /\ ("no-cache" \notin reqCC /\ "no-cache" \in respCC) => Verdict = stale
            /\ ("no-cache" \notin reqCC /\ "no-cache" \notin respCC
                /\ "only-if-cached" \in reqCC) => Verdict = fresh
            /\ ("no-cache" \notin reqCC /\ "no-cache" \notin respCC
                /\ "only-if-cached" \notin reqCC
                /\ ~ParseTime(Get(JudgedResp, "Date")).ok) => Verdict = stale
            /\ Verdict \in {stale, fresh, transparent}

\* only-if-cached decides fresh for an entry without a Date, of an age past its
\* max-age, and with a validator the request does not match.
C17_Witness ==
    /\ call["c1"].pc = "judged"
    /\ "only-if-cached" \in DOMAIN parseCacheControl(JudgedReq)
    /\ Get(JudgedResp, "Date") = ""
    /\ Get(JudgedResp, "Etag") = "x"
    /\ Get(JudgedReq, "If-None-Match") = "y"
    /\ Verdict = fresh

\* None of the first rules decides: no no-cache, no only-if-cached, a Date that
\* parses.
LifetimeRuleApplies ==
    /\ call["c1"].pc = "judged"
    /\ "no-cache" \notin DOMAIN parseCacheControl(JudgedReq)
    /\ "no-cache" \notin DOMAIN parseCacheControl(JudgedResp)
    /\ "only-if-cached" \notin DOMAIN parseCacheControl(JudgedReq)
    /\ ParseTime(Get(JudgedResp, "Date")).ok

\* The seconds of directive k of the header collection h: zero when it is absent.
Seconds(h, k) ==
    IF k \in DOMAIN parseCacheControl(h) THEN ParseDuration(parseCacheControl(h)[k]).d ELSE 0

\* Directive k of h is there with a value that is no duration.
Unparseable(h, k) ==
    k \in DOMAIN parseCacheControl(h) /\ ~ParseDuration(parseCacheControl(h)[k]).ok

ValuelessMaxStale ==
    /\ "max-stale" \in DOMAIN parseCacheControl(JudgedReq)
    /\ parseCacheControl(JudgedReq)["max-stale"] = ""

\* L: the request's max-age, else the response's max-age, else Expires minus Date,
\* else 0; an unparseable max-age or Expires gives 0.
LifetimeL ==
    IF "max-age" \in DOMAIN parseCacheControl(JudgedReq) THEN Seconds(JudgedReq, "max-age")
    ELSE IF "max-age" \in DOMAIN parseCacheControl(JudgedResp)
         THEN Seconds(JudgedResp, "max-age")
    ELSE IF ParseTime(Get(JudgedResp, "Expires")).ok
         THEN ParseTime(Get(JudgedResp, "Expires")).t - ParseTime(Get(JudgedResp, "Date")).t
    ELSE 0

\* A: now minus Date, plus the request's min-fresh, minus its max-stale.
AgeA ==
    now - ParseTime(Get(JudgedResp, "Date")).t
        + Seconds(JudgedReq, "min-fresh") - Seconds(JudgedReq, "max-stale")

\* The request's validators converge with the entry's.
Converge ==
    LET fe == Get(JudgedReq, "If-None-Match") = Get(JudgedResp, "Etag")
                 /\ Get(JudgedResp, "Etag") # ""
        fl == Get(JudgedReq, "If-Modified-Since") = Get(JudgedResp, "Last-Modified")
                 /\ Get(JudgedResp, "Last-Modified") # ""
    IN  \/ fe /\ fl
        \/ fe /\ (Get(JudgedReq, "If-Modified-Since") = ""
                  \/ Get(JudgedResp, "Last-Modified") = "")
        \/ fl /\ (Get(JudgedReq, "If-None-Match") = "" \/ Get(JudgedResp, "Etag") = "")

\* C18 as stated: when no earlier rule decides, the verdict is fresh exactly when
\* L > A and the validators converge, every unparseable duration (max-age,
\* min-fresh, max-stale) giving L = 0; valueless max-stale gives fresh.
C18_LifetimeRuleAnyUnparseable ==
    LifetimeRuleApplies =>
        IF ValuelessMaxStale THEN Verdict = fresh
        ELSE LET L == IF Unparseable(JudgedReq, "min-fresh")
                         \/ Unparseable(JudgedReq, "max-stale")
                      THEN 0 ELSE LifetimeL
             IN  (Verdict = fresh) = (L > AgeA /\ Converge)

\* C18 amended: an unparseable max-age (or Expires) gives L = 0, while an
\* unparseable min-fresh or max-stale value is ignored (it leaves A as it is).
C18_LifetimeRule ==
    LifetimeRuleApplies =>
        /\ Verdict \in {fresh, stale}
        /\ IF ValuelessMaxStale THEN Verdict = fresh
           ELSE (Verdict = fresh) = (LifetimeL > AgeA /\ Converge)

\* Fresh by the lifetime rule with a min-fresh that counts: the request's max-age
\* 2 overrides the entry's 1, the age is 0, min-fresh 1, and the ETag matches.
C18_Witness ==
    /\ LifetimeRuleApplies
    /\ Seconds(JudgedReq, "max-age") = 2
    /\ Seconds(JudgedReq, "min-fresh") = 1
    /\ Seconds(JudgedResp, "max-age") = 1
    /\ AgeA = 1
    /\ Get(JudgedReq, "If-None-Match") = "x"
    /\ Verdict = fresh

\* The returning dispatch revalidated a stale entry and upstream answered with a
\* response that is neither a 304 nor diverted to the entry by stale-if-error.
RevalidationSuperseded(o) ==
    /\ o.req.method \in {"GET", "HEAD"}
    /\ o.inBranch
    /\ o.freshness = stale
    /\ o.called
    /\ ~o.out[1].err
    /\ o.out[1].resp.status # StatusNotModified
    /\ ~(o.out[1].resp.status >= StatusInternalServerError
         /\ canStaleOnError(o.cached[1].header, o.req.header, o.at))

\* The caller received the upstream response.
UpstreamResponseReturned(o) ==
    /\ ~o.err
    /\ ~o.fromCache
    /\ o.resp[1].status = o.out[1].resp.status
    /\ o.resp[1].body = o.out[1].resp.body

\* The entry the dispatch had read is no longer in the store: the key is absent, or
\* was written over in the returning step.
PreviousEntryGone(o) ==
    \/ o.key \notin DOMAIN store
    \/ (lastSet # <<>> /\ lastSet[1].key = o.key)

\* C19 as stated: when a stale entry is revalidated and upstream returns any status
\* other than 304 (200 included) that stale-if-error does not divert, the stored
\* entry is deleted by the time the dispatch returns and the caller receives the
\* upstream response.
C19_SupersededEntryDeleted ==
    (obs # <<>> /\ RevalidationSuperseded(Ret)) =>
        /\ UpstreamResponseReturned(Ret)
        /\ PreviousEntryGone(Ret)

\* C19 amended: for a status other than 200 (and 304) the entry is deleted by the
\* time the dispatch returns; for a 200 the entry is not deleted on that account:
\* it stays until the new response is written over it (HEAD: before the return;
\* GET: at the end-of-stream of the body, which is handed out wrapped) and is
\* deleted at return only when the new response is not storable. The caller
\* receives the upstream response in every case.
C19_Superseded ==
    (obs # <<>> /\ RevalidationSuperseded(Ret)) =>
        /\ UpstreamResponseReturned(Ret)
        /\ Ret.out[1].resp.status # StatusOK => PreviousEntryGone(Ret)
        /\ Ret.out[1].resp.status = StatusOK =>
              IF NoStoreDeclared(Ret.req, Ret.out[1].resp)
                 \/ (Get(Ret.out[1].resp.header, "Etag") = ""
                     /\ Get(Ret.out[1].resp.header, "Last-Modified") = "")
              THEN Ret.key \notin DOMAIN store
              ELSE IF Ret.req.method = "GET"
                   THEN /\ Ret.wrapped
                        /\ lastSet = <<>>
                        /\ Ret.key \in DOMAIN store
                        /\ ReadResponse(store[Ret.key]).resp = Ret.cached
                   ELSE PreviousEntryGone(Ret) /\ Ret.key \in DOMAIN store

\* Upstream rejected the revalidation of a stale entry with a 404: the caller has
\* the 404 and the entry is gone.
C19_Witness ==
    /\ obs # <<>>
    /\ RevalidationSuperseded(Ret)
    /\ Ret.req.method = "GET"
    /\ Ret.out[1].resp.status = 404
    /\ Ret.had
    /\ Ret.resp[1].status = 404
    /\ Ret.key \notin DOMAIN store

(***************************************************************************)
(* The reconciliation of a 304 on its own: a dispatch that read an entry   *)
(* waits for upstream, and upstream answers 304 with each set of headers   *)
(***************************************************************************)
\* Stored entries: with or without Last-Modified, max-age and a Keep-Alive header.
MergeEntries ==
    {[status |-> StatusOK,
      header |-> ("Date" :> "T0") @@ ("Etag" :> "x") @@ ("Content-Type" :> "text")
                 @@ ("Content-Length" :> "2") @@ Opt("Last-Modified", lm, "")
                 @@ Opt("Cache-Control", cc, <<>>) @@ Opt("Keep-Alive", ka, ""),
      body |-> <<"a", "b">>] :
        lm \in {"", "m"}, cc \in {<<>>, <<DirectiveV("max-age", "1")>>}, ka \in {"", "old"}}

\* A GET without validators, one with the entry's ETag, and one with the ETag and
\* no-cache (a transparent verdict: the cache sets no validator).
MergeRequests ==
    {[method |-> "GET", url |-> URL, optin |-> FALSE,
      header |-> Opt("Cache-Control", cc, <<>>) @@ Opt("If-None-Match", inm, "")] :
        cc \in {<<>>, <<Directive("no-cache")>>}, inm \in {"", "x"}}

\* The 304s of upstream: each end-to-end header present or not, a Keep-Alive, and a
\* Connection header that lists nothing, a blank, "etag", or "keep-alive, etag"
\* (split at the commas: the second token keeps its leading blank).
NotModifiedAnswers ==
    {[err |-> FALSE,
      resp |-> [status |-> StatusNotModified,
                header |-> ("Date" :> "T0") @@ Opt("Etag", etag, "")
                           @@ Opt("Content-Length", cl, "") @@ Opt("Content-Type", ct, "")
                           @@ Opt("Last-Modified", lm, "") @@ Opt("Cache-Control", cc, <<>>)
                           @@ Opt("Connection", conn, <<>>) @@ Opt("Keep-Alive", ka, ""),
                body |-> <<>>]] :
        etag \in {"", "x2"}, cl \in {"", "0"}, ct \in {"", "html"}, lm \in {"", "m2"},
        cc \in {<<>>, <<DirectiveV("max-age", "2")>>},
        conn \in {<<>>, <<" ">>, <<"etag">>, <<"keep-alive", " etag">>},
        ka \in {"", "new"}}

\* The caller's record once RoundTrip has read entry e for req and calls upstream.
AwaitingRevalidation(req, e) ==
    LET freshness == getFreshness(e.header, req.header, 0)
    IN  [IdleCall EXCEPT
            !.pc = "upstream", !.req = <<req>>, !.key = CacheKey(req), !.cacheable = TRUE,
            !.cached = <<e>>, !.inBranch = TRUE, !.had = TRUE, !.freshness = freshness,
            !.sent = IF freshness = stale THEN <<addValidators(req, e)>> ELSE <<req>>,
            !.staleclient = IF freshness = stale THEN staleClientAfter(e) ELSE 1]

MergeInit ==
    /\ now = 0
    /\ dispatched = 1
    /\ lastSet = <<>>
    /\ obs = <<>>
    /\ \E req \in MergeRequests, e \in MergeEntries :
          /\ getFreshness(e.header, req.header, 0) # fresh
          /\ store = (CacheKey(req) :> DumpResponse(e))
          /\ call = [c \in Callers |->
                       IF c = "c1" THEN AwaitingRevalidation(req, e) ELSE IdleCall]

MergeNext == \E out \in NotModifiedAnswers : Reply("c1", out)

SpecMerge == MergeInit /\ [][MergeNext]_vars

\* The hop-by-hop names of a header collection as the claim has them: the eight
\* fixed names and each name its Connection header lists, blanks trimmed.
ListedHopByHop(h) ==
    LET listed == IF "Connection" \in DOMAIN h THEN h["Connection"] ELSE <<>>
    IN  HopByHopHeaders
        \cup {CanonicalHeaderKey(TrimSpace(listed[i])) :
                 i \in {j \in DOMAIN listed : TrimSpace(listed[j]) # ""}}

\* The returning dispatch reconciled a 304 with the entry it had read.
Reconciled304(o) ==
    /\ o.inBranch
    /\ o.called
    /\ ~o.out[1].err
    /\ o.out[1].resp.status = StatusNotModified

\* Header n of the returned response is the entry's, or absent as in the entry.
KeptFromEntry(o, n) ==
    IF n \in DOMAIN o.cached[1].header
    THEN n \in DOMAIN o.resp[1].header /\ o.resp[1].header[n] = o.cached[1].header[n]
    ELSE n \notin DOMAIN o.resp[1].header

\* C20 as stated: every header of the 304 that is not hop-by-hop replaces the
\* same-named header of the returned entry; no hop-by-hop header (the eight fixed
\* names and each name the 304's Connection lists, blanks ignored) is copied;
\* Content-Length is not copied when the cache set the validators; when the cache
\* set none, the response is an empty 304 without Content-Type, Last-Modified and
\* Status.
C20_HeaderMerge ==
    (obs # <<>> /\ Reconciled304(Ret)) =>
        LET h304 == Ret.out[1].resp.header
            res == Ret.resp[1].header
            hop == ListedHopByHop(h304)
            stripped == IF Ret.staleclient = 1 THEN NotModifiedDelHeaders ELSE {}
        IN  /\ \A n \in (DOMAIN h304 \ hop) \ (stripped \cup {"Content-Length"}) :
                  n \in DOMAIN res /\ res[n] = h304[n]
            /\ \A n \in (DOMAIN h304 \cap hop) \ stripped : KeptFromEntry(Ret, n)
            /\ (Ret.staleclient = 0 /\ "Content-Length" \in DOMAIN h304)
                  => KeptFromEntry(Ret, "Content-Length")
            /\ Ret.staleclient = 1 =>
                  /\ Ret.resp[1].status = StatusNotModified
                  /\ Ret.resp[1].body = <<>>
                  /\ DOMAIN res \cap {"Content-Type", "Last-Modified", "Status"} = {}

\* C20 with the hop-by-hop names as getEndToEndHeaders computes them.
C20_HeaderMergeAsComputed ==
    (obs # <<>> /\ Reconciled304(Ret)) =>
        LET h304 == Ret.out[1].resp.header
            res == Ret.resp[1].header
            e2e == getEndToEndHeaders(h304)
            stripped == IF Ret.staleclient = 1 THEN NotModifiedDelHeaders ELSE {}
        IN  /\ \A n \in e2e \ (stripped \cup {"Content-Length"}) :
                  n \in DOMAIN res /\ res[n] = h304[n]
            /\ \A n \in (DOMAIN h304 \ e2e) \ stripped : KeptFromEntry(Ret, n)
            /\ (Ret.staleclient = 0 /\ "Content-Length" \in DOMAIN h304)
                  => KeptFromEntry(Ret, "Content-Length")
            /\ Ret.staleclient = 1 =>
                  /\ Ret.resp[1].status = StatusNotModified
                  /\ Ret.resp[1].body = <<>>
                  /\ DOMAIN res \cap {"Content-Type", "Last-Modified", "Status"} = {}

(***************************************************************************)
(* Concurrent dispatches: the callers run RoundTrip at the same time, on   *)
(* few requests and few answers                                            *)
(***************************************************************************)
\* A plain GET, and a GET of a range without the marker (not cacheable, same key).
ConcRequests ==
    {[method |-> "GET", url |-> URL, optin |-> FALSE, header |-> NoHeader],
     [method |-> "GET", url |-> URL, optin |-> FALSE, header |-> ("Range" :> "bytes=0-1")]}

\* What upstream answers: a failure, a 200 with ETag x, a 200 with ETag y and
\* another body, a 404 without validators.
ConcOutcomes(req, clk) ==
    {[err |-> TRUE, resp |-> NoResp],
     [err |-> FALSE, resp |-> OriginResponse(req, clk, StatusOK, <<>>, "x", "", <<>>)],
     [err |-> FALSE, resp |-> OriginResponse(req, clk, StatusOK, <<>>, "y", "", <<>>)],
     [err |-> FALSE, resp |-> OriginResponse(req, clk, 404, <<>>, "", "", <<>>)]}

ConcNext ==
    \/ \E c \in Callers, req \in ConcRequests : Dispatch(c, req)
    \/ \E c \in Callers :
          /\ call[c].pc = "upstream"
          /\ \E out \in ConcOutcomes(call[c].sent[1], now) : Reply(c, out)
    \/ \E c \in Callers :
          /\ call[c].pc = "body"
          /\ \E n \in 0..Len(call[c].resp[1].body), eof \in BOOLEAN : Read(c, n, eof)
    \/ \E c \in Callers : Close(c)
    \/ \E c \in Callers : Release(c)

SpecConc == Init /\ [][ConcNext]_vars

\* Both callers dispatched the same GET when no entry was under its key, both were
\* answered by upstream, and both have read their body to end-of-stream.
BothDrained ==
    /\ \A c \in Callers :
          /\ call[c].pc = "body"
          /\ ~call[c].inBranch
          /\ call[c].sent[1].method = "GET"
          /\ call[c].onEOF >= 1
    /\ call["c1"].key = call["c2"].key

\* Then the store holds under the key the whole response of one of the two.
C21_OneWhole ==
    BothDrained =>
        /\ call["c1"].key \in DOMAIN store
        /\ store[call["c1"].key] \in {DumpResponse(call[c].resp[1]) : c \in Callers}

\* A write leaves under its key exactly the response of the caller that wrote.
C21_LastWrite ==
    lastSet' # <<>> =>
        /\ lastSet'[1].key \in DOMAIN store'
        /\ store'[lastSet'[1].key] = lastSet'[1].val
        /\ call[lastSet'[1].by].pc = "body"
              => lastSet'[1].val = DumpResponse(call[lastSet'[1].by].resp[1])
        /\ \A k \in DOMAIN store' \ {lastSet'[1].key} : k \in DOMAIN store /\ store'[k] = store[k]

\* C21: two dispatches of the same GET running concurrently against an empty store
\* can both call upstream and both write the key; after both bodies are drained
\* the store holds exactly one entry under the key, the response of whichever
\* write happened last, never a mixture of the two.
C21_NoSingleflight == [](C21_OneWhole) /\ [][C21_LastWrite]_vars

\* Both dispatches missed, upstream answered them differently, both wrote, and the
\* entry is the second caller's.
C21_Witness ==
    /\ BothDrained
    /\ Get(call["c1"].resp[1].header, "Etag") = "x"
    /\ Get(call["c2"].resp[1].header, "Etag") = "y"
    /\ lastSet # <<>>
    /\ lastSet[1].by = "c2"
    /\ store[call["c1"].key].body = <<"c">>

(***************************************************************************)
(* A store that another user of it has written to: the bytes under the key *)
(* are no HTTP response                                                     *)
(***************************************************************************)
\* Bytes that http.ReadResponse rejects.
Junk == [wire |-> "junk", status |-> 0, header |-> NoHeader, body |-> <<"j">>]

JunkInit ==
    /\ store \in {<<>>, (URL :> Junk), ("HEAD " \o URL :> Junk)}
    /\ now = 0
    /\ call = [c \in Callers |-> IdleCall]
    /\ dispatched = 0
    /\ lastSet = <<>>
    /\ obs = <<>>

SpecJunk == JunkInit /\ [][Next]_vars

\* The returning dispatch of a cacheable request found bytes under its key that do
\* not parse.
MalformedEntry(o) ==
    /\ o.req.method \in {"GET", "HEAD"}
    /\ Get(o.req.header, "Range") = ""
    /\ Get(o.req.header, "Authorization") = ""
    /\ o.key \in DOMAIN o.before
    /\ o.before[o.key].wire # "http"

\* C22: when the bytes under a cacheable request's key cannot be parsed as a
\* response the dispatch behaves as if no entry were stored: it forwards upstream,
\* or returns the synthetic 504 under only-if-cached; a successful upstream
\* response is returned with a nil error, and the parse error is never returned.
C22_MalformedEntry ==
    (obs # <<>> /\ MalformedEntry(Ret)) =>
        /\ Ret.cached = <<>>
        /\ ~Ret.inBranch
        /\ ~Ret.fromCache
        /\ Ret.sent = Ret.req
        /\ IF "only-if-cached" \in DOMAIN parseCacheControl(Ret.req.header)
           THEN /\ ~Ret.called
                /\ ~Ret.err
                /\ Ret.resp[1].status = StatusGatewayTimeout
           ELSE /\ Ret.called
                /\ Ret.err = Ret.out[1].err
                /\ ~Ret.out[1].err =>
                      /\ Ret.resp[1].status = Ret.out[1].resp.status
                      /\ Ret.resp[1].body = Ret.out[1].resp.body

\* A GET found junk under its key, upstream answered 200 and the caller has it.
C22_Witness ==
    /\ obs # <<>>
    /\ MalformedEntry(Ret)
    /\ Ret.req.method = "GET"
    /\ Ret.called
    /\ ~Ret.err
    /\ Ret.resp[1].status = StatusOK
    /\ Ret.resp[1].body = <<"a", "b">>

(***************************************************************************)
(* Concurrent dispatches on a store that already holds an entry            *)
(***************************************************************************)
\* The entry an earlier GET of the URL left: a 200 with ETag x, marked as a miss
\* that was stored.
EarlierEntry ==
    DumpResponse(markResponse(OriginResponse([method |-> "GET", url |-> URL, optin |-> FALSE, header |-> NoHeader], 0, StatusOK, <<>>, "x", "", <<>>), 0, 0, transparent, 1, 1))

RaceInit ==
    /\ store = (URL :> EarlierEntry)
    /\ now = 0
    /\ call = [c \in Callers |-> IdleCall]
    /\ dispatched = 0
    /\ lastSet = <<>>
    /\ obs = <<>>

SpecRace == RaceInit /\ [][ConcNext]_vars

\* The ETags of the responses a caller can hold with its body wrapped.
HeldEtags == {"x", "y"}

\* Caller c holds a body fetched from upstream that it has not read to the end, and
\* the step just taken was the return of another caller's dispatch, which deleted
\* the entry that was under the same key.
InvalidatedWhileHeld(c, etag) ==
    /\ call[c].pc = "body"
    /\ call[c].onEOF = 0
    /\ Get(call[c].resp[1].header, "Etag") = etag
    /\ obs # <<>>
    /\ Ret.caller # c
    /\ Ret.key = call[c].key
    /\ Ret.key \in DOMAIN Ret.before
    /\ Ret.key \notin DOMAIN store

\* Caller c writes the response with that ETag under its key.
WritesHeld(c, etag) ==
    /\ lastSet # <<>>
    /\ lastSet[1].by = c
    /\ Get(lastSet[1].val.header, "Etag") = etag

\* C23 as stated: once a dispatch has deleted the entry under key K, a response
\* that was fetched from upstream before that deletion is never afterwards written
\* under K, whatever the interleaving of body reads and dispatches; in particular
\* it is not written by the step that follows the deletion.
C23_NoResurrection ==
    [][\A c \in Callers, etag \in HeldEtags :
          InvalidatedWhileHeld(c, etag) => ~WritesHeld(c, etag)']_vars

(***************************************************************************)
(* Requests of other methods                                               *)
(***************************************************************************)
\* The entry under a key, if any.
EntryUnder(items, key) == IF key \in DOMAIN items THEN <<items[key]>> ELSE <<>>

\* The step is one of a dispatch by caller c of a request that is neither GET nor
\* HEAD: RoundTrip up to the call of the transport, or RoundTrip's return.
OtherMethodStep(c) ==
    \/ /\ call[c].pc = "idle"
       /\ call'[c].pc = "upstream"
       /\ call'[c].req[1].method \notin {"GET", "HEAD"}
    \/ /\ call[c].pc \in {"idle", "upstream"}
       /\ obs' # <<>>
       /\ obs'[1].caller = c
       /\ obs'[1].req.method \notin {"GET", "HEAD"}

\* C24: a dispatch of a request whose method is neither GET nor HEAD to URL U
\* leaves the entries under the GET key and the HEAD key of U as they are, neither
\* deleted nor rewritten, whatever upstream answers.
C24_OtherMethodsKeepEntries ==
    [][\A c \in Callers :
          OtherMethodStep(c) =>
              /\ EntryUnder(store', URL) = EntryUnder(store, URL)
              /\ EntryUnder(store', "HEAD " \o URL) = EntryUnder(store, "HEAD " \o URL)]_vars

\* A POST to the URL returned after upstream answered, with the GET entry in the store.
C24_Witness ==
    /\ obs # <<>>
    /\ Ret.req.method = "POST"
    /\ Ret.called
    /\ URL \in DOMAIN Ret.before
    /\ URL \in DOMAIN store

(***************************************************************************)
(* Dispatches that do not call upstream                                    *)
(***************************************************************************)
\* The dispatch returned a response and never called the underlying transport.
AnsweredWithoutUpstream(o) == ~o.called /\ ~o.err /\ o.resp # <<>>

\* The response is the cached one and carries a body.
StoredBodyHandedOut(o) == ~o.err /\ o.fromCache /\ o.resp[1].body # <<>>

\* C25: a dispatch that returns a response without having called the upstream
\* transport returns a 304 with an empty body, under a fresh verdict, or the
\* synthetic 504; a stored body is handed to the caller only by a dispatch that
\* called upstream and got a 304 (revalidation) or a failure or 5xx (stale-if-error).
C25_NoUpstreamNoBody ==
    obs # <<>> =>
        /\ AnsweredWithoutUpstream(Ret) =>
              \/ /\ Ret.resp[1].status = StatusNotModified
                 /\ Ret.resp[1].body = <<>>
                 /\ Ret.freshness = fresh
                 /\ Ret.cached # <<>>
              \/ /\ Ret.resp[1].status = StatusGatewayTimeout
                 /\ Ret.resp[1].body = <<>>
                 /\ DelHeaders(Ret.resp[1].header, {XFromCache}) = NoHeader
                 /\ "only-if-cached" \in DOMAIN parseCacheControl(Ret.req.header)
        /\ StoredBodyHandedOut(Ret) =>
              /\ Ret.called
              /\ Ret.cached # <<>>
              /\ Ret.resp[1].body = Ret.cached[1].body
              /\ \/ Ret.out[1].err
                 \/ Ret.out[1].resp.status = StatusNotModified
                 \/ Ret.out[1].resp.status >= StatusInternalServerError

\* A fresh entry with a body answered a dispatch that did not call upstream.
C25_Witness ==
    /\ obs # <<>>
    /\ AnsweredWithoutUpstream(Ret)
    /\ Ret.freshness = fresh
    /\ Ret.cached # <<>>
    /\ Ret.cached[1].body # <<>>
    /\ Ret.resp[1].status = StatusNotModified

(***************************************************************************)
(* The X-Proxy-Cache value of returned responses                           *)
(***************************************************************************)
\* The five fields, each over its vocabulary.
Quintuples ==
    {"miss", "hit"} \X {"no-cache", "cached"} \X {"stale", "fresh", "transparent"} \X {"no-store", "store"} \X {"use-none", "use-cache-header", "use-client-header"}

\* The header value that spells a quintuple.
QuintupleValue(q) == q[1] \o ", " \o q[2] \o ", " \o q[3] \o ", " \o q[4] \o ", " \o q[5]

\* The quintuple is one the claim allows.
ConsistentQuintuple(q) ==
    /\ (q[3] = "fresh") <=> (q[5] = "use-none")
    /\ q[3] = "fresh" => q = <<"hit", "cached", "fresh", "no-store", "use-none">>
    /\ ~(q[4] = "store" /\ q[1] = "hit")
    /\ q[5] = "use-cache-header" => q[3] = "stale"

\* C26: with marking enabled, the X-Proxy-Cache value of every returned response is
\* five words of the fixed vocabularies; freshness is "fresh" exactly when the
\* stale-client field is "use-none", and then the value is "hit, cached, fresh,
\* no-store, use-none"; "store" never goes with "hit"; "use-cache-header" only goes
\* with freshness "stale".
C26_MarkerConsistency ==
    (obs # <<>> /\ ~Ret.err) =>
        \E q \in Quintuples :
            /\ Get(Ret.resp[1].header, XFromCache) = QuintupleValue(q)
            /\ ConsistentQuintuple(q)

\* A revalidation whose new response is marked as a miss to be stored, judged stale
\* with the cache's validators sent.
C26_Witness ==
    /\ obs # <<>>
    /\ ~Ret.err
    /\ Get(Ret.resp[1].header, XFromCache) = "miss, cached, stale, store, use-cache-header"

====
